---- MODULE Spec2Model ----
(***************************************************************************)
(* MindArcade, the maze game (MazeRunner): the maze generator              *)
(* (generateMaze: grid builder, recursive backtracker, extra paths of the  *)
(* hard difficulty), the initialize effect, movePlayer, the game loop and  *)
(* the fog predicate isInFog.                                              *)
(*                                                                         *)
(* Cells are pairs <<x, y>>; a cell record holds the four wall flags and   *)
(* the visited flag, as the Cell interface does.  Math.random() is a       *)
(* nondeterministic choice.  One iteration of a loop of generateMaze is    *)
(* one step: the code runs synchronously, so nothing can observe the state *)
(* between two statements of one iteration.                                *)
(***************************************************************************)
EXTENDS Integers, Sequences, FiniteSets, TLC

\* ------------------------------------------------------------- bounds
\* generateMaze as a function of its argument is explored for 0..GenMaxSize.
GenMaxSize == 3
\* Math.floor(size * size * 0.05) is (size * size) \div 20 in the source;
\* the divisor is scaled with the grid so that extra paths exist.
BraidDivisor == 4
\* The clock advances in steps of TickMs, at most MaxTicks times.
TickMs == 100
MaxTicks == 11
\* At most MaxMoves accepted moves are explored in one attempt.
MaxMoves == 4
\* The shell mounts the game at most MaxMounts times, and a level is started
\* again no sooner than RestartTick clock steps after the first mount.
MaxMounts == 2
RestartTick == 10
\* A difficulty has LevelCount levels (5 in the source), and at most MaxPending
\* completion calls of the games are pending at a time.
LevelCount == 2
MaxPending == 1
\* handleComplete as a function of its arguments is explored for scores
\* 0..MaxReport and maximal scores -1..MaxReport.
MaxReport == 20
\* The tile-slide puzzle has TileGridSize rows and columns (3, 4 or 5 in the
\* source), and at most MaxTileMoves clicks are explored.
TileGridSize == 2
MaxTileMoves == 6

\* ------------------------------------------------------------- program constants
MOVE_COOLDOWN == 150
\* maxScore = config.timeLimit || 120
DefaultMaxScore == 120
\* setTimeout(() => onComplete(score, maxScore), 500)
CompleteDelay == 500
\* elapsed = (Date.now() - startTime.current) / 1000
MsPerSecond == 1000
\* TileSlide: const shuffleMoves = 150
shuffleMoves == 150
\* TileSlide: const maxScore = 1000; score = Math.max(100, ...)
TileMaxScore == 1000
TileMinScore == 100
\* TileSlide: the time limit null of getTimeLimit
Null == -1

\* ------------------------------------------------------------- state
VARIABLES
  difficulty,   \* prop: "easy" | "hard" | "insane"
  mounts,       \* how many times the shell has mounted MazeRunner
  phase,        \* where the component is: "mounted" (first render committed,
                \* initialize effect about to run), "carve", "braid",
                \* "return" (generateMaze about to return), "threw", "play",
                \* "unmounted"
  size,         \* generateMaze's argument
  grid,         \* generateMaze's local grid: cell -> Cell record
  stack,        \* generateMaze's stack of cells
  braidI,       \* the loop counter i of the extra-paths loop
  pushes,       \* the stack.push calls of this generateMaze call so far
  pops,         \* the stack.pop calls of this generateMaze call so far
  \* React state of MazeRunner, with every queued update applied
  maze,         \* <<>> is the initial []
  gameState,    \* "playing" | "won" | "lost"
  playerPos,
  trail,
  moveCount,
  timeElapsed,  \* kept in milliseconds: the source divides by 1000
  \* refs and the clock
  lastMoveTime,
  startTime,
  now,          \* Date.now()
  \* what the handlers read: the values captured by the closures
  seen,         \* of the last committed render (movePlayer, the game loop, onClick)
  touchSeen,    \* of the render in which the touch effect last ran
  loopOn,       \* a requestAnimationFrame callback of the game loop is scheduled
  timers,       \* pending setTimeout(() => onComplete(score, maxScore), 500)
  completed,    \* the onComplete calls delivered to the shell, in order
  \* React state of GameShell
  view,         \* "select" | "playing" | "complete"
  selectedDifficulty,
  selectedLevel,
  completionStars,
  completionScore,
  progress,     \* the GameProgress of the game, as stored and as in the state
  pending,      \* pending timeouts of the games that call handleComplete
  \* TileSlide: the locals current, empty and i of initializePuzzle
  shuffle,
  \* React state of TileSlide
  tiles,        \* <<>> is the initial []
  emptyIndex,
  moves,
  timeLeft,
  gameStarted,
  gameOver,
  scheduled     \* pending setTimeout(() => onComplete(score, maxScore), ...)

genVars == <<size, grid, stack, braidI, pushes, pops>>
stateVars == <<maze, gameState, playerPos, trail, moveCount, timeElapsed>>
refVars == <<lastMoveTime, startTime>>
handlerVars == <<seen, touchSeen, loopOn>>
playVars == <<stateVars, refVars, now, handlerVars, timers, completed>>
mazeVars == <<mounts, phase, genVars, playVars>>
shellVars == <<view, selectedDifficulty, selectedLevel, completionStars,
               completionScore, progress, pending>>
tileVars == <<shuffle, tiles, emptyIndex, moves, timeLeft, gameStarted, gameOver, scheduled>>
vars == <<difficulty, mazeVars, shellVars, tileVars>>

Difficulties == {"easy", "hard", "insane"}

\* const config = { easy: ..., hard: ..., insane: ... }[difficulty]
Infinity == [finite |-> FALSE, r |-> 0]

Finite(n) == [finite |-> TRUE, r |-> n]

\* The source has sizes 11, 17, 23, time limits 0, 60, 40 (seconds) and fog
\* radii Infinity, Infinity, 3.  The model keeps the three difficulties and
\* what tells them apart (no limit and no extra paths; extra paths; fog) and
\* scales the numbers down: grids of 2, 2 and 3 cells, limits of one second,
\* a fog radius of 1.
config ==
  [easy   |-> [size |-> 2, timeLimit |-> 0, fogRadius |-> Infinity],
   hard   |-> [size |-> 2, timeLimit |-> 1, fogRadius |-> Infinity],
   insane |-> [size |-> 3, timeLimit |-> 1, fogRadius |-> Finite(1)]]

\* the config of the current difficulty
Cfg == config[difficulty]

\* ------------------------------------------------------------- the grid
Cells(n) == (0 .. n - 1) \X (0 .. n - 1)

InBounds(n, x, y) == x >= 0 /\ x < n /\ y >= 0 /\ y < n

\* const directions = [ {dx, dy, dir, opposite} ... ], in the source's order
directions ==
  << [dx |-> 0,  dy |-> -1, dir |-> "top",    opposite |-> "bottom"],
     [dx |-> 1,  dy |-> 0,  dir |-> "right",  opposite |-> "left"],
     [dx |-> 0,  dy |-> 1,  dir |-> "bottom", opposite |-> "top"],
     [dx |-> -1, dy |-> 0,  dir |-> "left",   opposite |-> "right"] >>

DirNames == {"top", "right", "bottom", "left"}

\* directions.find(d => d.dir === direction), also the dirMap of the braiding
DirOf(name) == CHOOSE i \in 1 .. 4 : directions[i].dir = name

dirMap(name) == directions[DirOf(name)]

\* grid[y][x] = { x, y, walls: all true, visited: false }
NewCell == [top |-> TRUE, right |-> TRUE, bottom |-> TRUE, left |-> TRUE,
            visited |-> FALSE]

\* Neighbors with the bound of the grid off by one (nx < size - 1).
Neighbors_OffByOne(n, g, c) ==
  { i \in 1 .. 4 :
      LET nx == c[1] + directions[i].dx
          ny == c[2] + directions[i].dy
      IN  InBounds(n - 1, nx, ny) /\ ~g[<<nx, ny>>].visited }

\* the neighbors array of one carver iteration: the indexes into directions
\* of the in-bounds unvisited neighbours of cell c
Neighbors(n, g, c) ==
  { i \in 1 .. 4 :
      LET nx == c[1] + directions[i].dx
          ny == c[2] + directions[i].dy
      IN  InBounds(n, nx, ny) /\ ~g[<<nx, ny>>].visited }

\* CarveInto that leaves the wall of the neighbour standing.
CarveInto_OneSided(g, c, i) ==
  LET d   == directions[i]
      nxt == <<c[1] + d.dx, c[2] + d.dy>>
  IN  [g EXCEPT ![c][d.dir] = FALSE,
                ![nxt].visited = TRUE]

\* current.walls[direction] = false; next.walls[oppositeDir] = false;
\* next.visited = true
CarveInto(g, c, i) ==
  LET d   == directions[i]
      nxt == <<c[1] + d.dx, c[2] + d.dy>>
      opp == directions[DirOf(d.dir)].opposite
  IN  [g EXCEPT ![c][d.dir] = FALSE,
                ![nxt][opp] = FALSE,
                ![nxt].visited = TRUE]

\* const extraPaths = Math.floor(size * size * 0.05), only when hard
ExtraPaths(n) == (n * n) \div BraidDivisor

\* WallDirs without the filter: every direction, standing or not.
WallDirs_All(g, c) == DirNames

\* Object.keys(cell.walls).filter(dir => cell.walls[dir])
WallDirs(g, c) == { d \in DirNames : g[c][d] }

\* BraidCell without the bounds test: the wall of the cell is cleared also
\* when it faces outside the grid.
BraidCell_NoBoundsCheck(n, g, c, dir) ==
  LET d  == dirMap(dir)
      nx == c[1] + d.dx
      ny == c[2] + d.dy
  IN  IF InBounds(n, nx, ny)
      THEN [g EXCEPT ![c][dir] = FALSE, ![<<nx, ny>>][d.opposite] = FALSE]
      ELSE [g EXCEPT ![c][dir] = FALSE]

\* BraidCell without the write to the neighbour's wall.
BraidCell_OneSided(n, g, c, dir) ==
  LET d  == dirMap(dir)
      nx == c[1] + d.dx
      ny == c[2] + d.dy
  IN  IF InBounds(n, nx, ny) THEN [g EXCEPT ![c][dir] = FALSE] ELSE g

\* one iteration of the extra-paths loop for sampled cell c and wall dir
BraidCell(n, g, c, dir) ==
  LET d  == dirMap(dir)
      nx == c[1] + d.dx
      ny == c[2] + d.dy
  IN  IF InBounds(n, nx, ny)
      THEN [g EXCEPT ![c][dir] = FALSE, ![<<nx, ny>>][d.opposite] = FALSE]
      ELSE g

\* ------------------------------------------------------------- generateMaze
\* Lines 60-78: build the grid, mark grid[0][0] visited and push it.  With
\* size <= 0 the grid is [] and grid[0][0] reads a property of undefined:
\* a TypeError is thrown.
BuildGrid ==
  /\ phase = "mounted"
  /\ IF size <= 0
     THEN /\ phase' = "threw"
          /\ grid' = <<>>
          /\ stack' = <<>>
          /\ pushes' = 0
     ELSE /\ phase' = "carve"
          /\ grid' = [[c \in Cells(size) |-> NewCell]
                        EXCEPT ![<<0, 0>>].visited = TRUE]
          /\ stack' = << <<0, 0>> >>
          /\ pushes' = 1
  /\ UNCHANGED <<shellVars, tileVars, difficulty, mounts, size, braidI, pops, playVars>>

\* CarveStep that leaves the loop at the first dead end instead of popping.
CarveStep_NoBacktrack ==
  /\ phase = "carve"
  /\ IF Len(stack) > 0 /\ Neighbors(size, grid, stack[Len(stack)]) # {}
     THEN \E i \in Neighbors(size, grid, stack[Len(stack)]) :
            /\ grid' = CarveInto(grid, stack[Len(stack)], i)
            /\ stack' = Append(stack, <<stack[Len(stack)][1] + directions[i].dx,
                                        stack[Len(stack)][2] + directions[i].dy>>)
            /\ pushes' = pushes + 1
            /\ UNCHANGED phase
     ELSE /\ phase' = IF difficulty = "hard" THEN "braid" ELSE "return"
          /\ UNCHANGED <<grid, stack, pushes>>
  /\ UNCHANGED <<shellVars, tileVars, difficulty, mounts, size, braidI, pops, playVars>>

\* CarveStep that goes on to the extra paths whatever the difficulty.
CarveStep_AlwaysBraid ==
  /\ phase = "carve"
  /\ IF Len(stack) > 0
     THEN LET current == stack[Len(stack)]
              nbrs    == Neighbors(size, grid, current)
          IN  IF nbrs # {}
              THEN \E i \in nbrs :
                     /\ grid' = CarveInto(grid, current, i)
                     /\ stack' = Append(stack,
                          <<current[1] + directions[i].dx,
                            current[2] + directions[i].dy>>)
                     /\ pushes' = pushes + 1
                     /\ UNCHANGED <<phase, pops>>
              ELSE /\ stack' = SubSeq(stack, 1, Len(stack) - 1)
                   /\ pops' = pops + 1
                   /\ UNCHANGED <<grid, phase, pushes>>
     ELSE /\ phase' = "braid"
          /\ UNCHANGED <<grid, stack, pushes, pops>>
  /\ UNCHANGED <<shellVars, tileVars, difficulty, mounts, size, braidI, playVars>>

\* One iteration of while (stack.length > 0), and the loop's exit.
CarveStep ==
  /\ phase = "carve"
  /\ IF Len(stack) > 0
     THEN LET current == stack[Len(stack)]
              nbrs    == Neighbors(size, grid, current)
          IN  IF nbrs # {}
              THEN \E i \in nbrs :
                     /\ grid' = CarveInto(grid, current, i)
                     /\ stack' = Append(stack,
                          <<current[1] + directions[i].dx,
                            current[2] + directions[i].dy>>)
                     /\ pushes' = pushes + 1
                     /\ UNCHANGED <<phase, pops>>
              ELSE /\ stack' = SubSeq(stack, 1, Len(stack) - 1)
                   /\ pops' = pops + 1
                   /\ UNCHANGED <<grid, phase, pushes>>
     ELSE /\ phase' = IF difficulty = "hard" THEN "braid" ELSE "return"
          /\ UNCHANGED <<grid, stack, pushes, pops>>
  /\ UNCHANGED <<shellVars, tileVars, difficulty, mounts, size, braidI, playVars>>

\* BraidStep whose loop runs once more (i <= extraPaths).
BraidStep_OneMore ==
  /\ phase = "braid"
  /\ IF braidI <= ExtraPaths(size)
     THEN /\ \E c \in Cells(size) :
               IF WallDirs(grid, c) # {}
               THEN \E dir \in WallDirs(grid, c) :
                      grid' = BraidCell(size, grid, c, dir)
               ELSE grid' = grid
          /\ braidI' = braidI + 1
          /\ UNCHANGED phase
     ELSE /\ phase' = "return"
          /\ UNCHANGED <<grid, braidI>>
  /\ UNCHANGED <<shellVars, tileVars, difficulty, mounts, size, stack, pushes, pops, playVars>>

\* One iteration of for (i = 0; i < extraPaths; i++), and the loop's exit.
BraidStep ==
  /\ phase = "braid"
  /\ IF braidI < ExtraPaths(size)
     THEN /\ \E c \in Cells(size) :
               IF WallDirs(grid, c) # {}
               THEN \E dir \in WallDirs(grid, c) :
                      grid' = BraidCell(size, grid, c, dir)
               ELSE grid' = grid
          /\ braidI' = braidI + 1
          /\ UNCHANGED phase
     ELSE /\ phase' = "return"
          /\ UNCHANGED <<grid, braidI>>
  /\ UNCHANGED <<shellVars, tileVars, difficulty, mounts, size, stack, pushes, pops, playVars>>

\* ------------------------------------------------------------- the initialize effect
\* The closures of a render: the state values its handlers read.
Snapshot == [gameState |-> gameState, playerPos |-> playerPos, maze |-> maze]

\* Initialize without setTrail([{ x: 0, y: 0 }]).
Initialize_KeepTrail ==
  /\ phase = "return"
  /\ phase' = "play"
  /\ maze' = grid
  /\ playerPos' = <<0, 0>>
  /\ timeElapsed' = 0
  /\ moveCount' = 0
  /\ gameState' = "playing"
  /\ startTime' = now
  /\ touchSeen' = seen
  /\ loopOn' = (seen.gameState = "playing")
  /\ UNCHANGED <<shellVars, tileVars, difficulty, mounts, genVars, trail, lastMoveTime, now, seen,
                 timers, completed>>

\* generateMaze returns and the effect sets maze, playerPos, trail,
\* timeElapsed, moveCount, gameState and startTime.  The effects declared
\* after it run in the same flush with the closures of the first render: the
\* touch handlers are attached and the game loop is scheduled.
Initialize ==
  /\ phase = "return"
  /\ phase' = "play"
  /\ maze' = grid
  /\ playerPos' = <<0, 0>>
  /\ trail' = << <<0, 0>> >>
  /\ timeElapsed' = 0
  /\ moveCount' = 0
  /\ gameState' = "playing"
  /\ startTime' = now
  /\ touchSeen' = seen
  /\ loopOn' = (seen.gameState = "playing")
  /\ UNCHANGED <<shellVars, tileVars, difficulty, mounts, genVars, lastMoveTime, now, seen, timers, completed>>

\* ------------------------------------------------------------- isInFog
Abs(k) == IF k < 0 THEN -k ELSE k

\* isInFog with && in place of ||.
isInFog_And(fogRadius, pos, x, y) ==
  IF ~fogRadius.finite THEN FALSE
  ELSE Abs(x - pos[1]) > fogRadius.r /\ Abs(y - pos[2]) > fogRadius.r

\* isInFog(x, y) of a render with player position pos and config.fogRadius
isInFog(fogRadius, pos, x, y) ==
  IF ~fogRadius.finite THEN FALSE
  ELSE LET dx == Abs(x - pos[1])
           dy == Abs(y - pos[2])
       IN  dx > fogRadius.r \/ dy > fogRadius.r

\* ------------------------------------------------------------- movePlayer
\* The mutable values a handler may change, as they are before it runs.
Before ==
  [playerPos |-> playerPos, moveCount |-> moveCount, trail |-> trail,
   gameState |-> gameState, lastMoveTime |-> lastMoveTime, timers |-> timers]

\* Lines 290-294: the wall of the closure's current cell in the direction of
\* the move is standing.
WallBlocks(cl, dx, dy) ==
  LET currentCell == cl.maze[cl.playerPos]
  IN  \/ dx = 1 /\ currentCell.right
      \/ dx = -1 /\ currentCell.left
      \/ dy = 1 /\ currentCell.bottom
      \/ dy = -1 /\ currentCell.top

\* MoveAccepted that also refuses a target cell in fog.
MoveAccepted_Fog(cfg, cl, dx, dy) ==
  /\ cl.gameState = "playing"
  /\ cl.maze # <<>>
  /\ ~(now - lastMoveTime < MOVE_COOLDOWN)
  /\ InBounds(cfg.size, cl.playerPos[1] + dx, cl.playerPos[2] + dy)
  /\ ~WallBlocks(cl, dx, dy)
  /\ ~isInFog(cfg.fogRadius, cl.playerPos, cl.playerPos[1] + dx,
              cl.playerPos[2] + dy)

\* MoveAccepted without the cooldown test.
MoveAccepted_NoCooldown(cfg, cl, dx, dy) ==
  /\ cl.gameState = "playing"
  /\ cl.maze # <<>>
  /\ InBounds(cfg.size, cl.playerPos[1] + dx, cl.playerPos[2] + dy)
  /\ ~WallBlocks(cl, dx, dy)

\* MoveAccepted without the test of maze.length, an empty maze having no
\* wall.
MoveAccepted_NoMazeCheck(cfg, cl, dx, dy) ==
  /\ cl.gameState = "playing"
  /\ ~(now - lastMoveTime < MOVE_COOLDOWN)
  /\ InBounds(cfg.size, cl.playerPos[1] + dx, cl.playerPos[2] + dy)
  /\ (cl.maze = <<>> \/ ~WallBlocks(cl, dx, dy))

\* Lines 278-294: none of the early returns of movePlayer is taken.
MoveAccepted(cfg, cl, dx, dy) ==
  /\ cl.gameState = "playing"
  /\ cl.maze # <<>>
  /\ ~(now - lastMoveTime < MOVE_COOLDOWN)
  /\ InBounds(cfg.size, cl.playerPos[1] + dx, cl.playerPos[2] + dy)
  /\ ~WallBlocks(cl, dx, dy)

\* Math.max(0, Math.floor(maxScore - elapsed)), elapsed in seconds
Score(maxScore, elapsedMs) ==
  LET fl == (maxScore * MsPerSecond - elapsedMs) \div MsPerSecond
  IN  IF fl > 0 THEN fl ELSE 0

\* MaxScoreOf without the default: config.timeLimit alone.
MaxScoreOf_NoDefault(cfg) == cfg.timeLimit

\* config.timeLimit || 120
MaxScoreOf(cfg) == IF cfg.timeLimit # 0 THEN cfg.timeLimit ELSE DefaultMaxScore

\* movePlayer that stamps lastMoveTime before the bounds and wall checks.
movePlayer_StampFirst(cfg, cl, dx, dy) ==
  IF ~MoveAccepted(cfg, cl, dx, dy)
  THEN IF cl.gameState = "playing" /\ cl.maze # <<>>
            /\ ~(now - lastMoveTime < MOVE_COOLDOWN)
       THEN [Before EXCEPT !.lastMoveTime = now]
       ELSE Before
  ELSE LET newPos == <<cl.playerPos[1] + dx, cl.playerPos[2] + dy>>
           goal   == newPos[1] = cfg.size - 1 /\ newPos[2] = cfg.size - 1
           maxScore == MaxScoreOf(cfg)
       IN  [playerPos    |-> newPos,
            moveCount    |-> moveCount + 1,
            trail        |-> Append(trail, newPos),
            gameState    |-> IF goal THEN "won" ELSE gameState,
            lastMoveTime |-> now,
            timers       |-> IF goal
                             THEN Append(timers,
                                    [score |-> Score(maxScore, now - startTime),
                                     maxScore |-> maxScore,
                                     due |-> now + CompleteDelay])
                             ELSE timers]

\* movePlayer(dx, dy) of a render whose closure is cl: the values after it.
movePlayer(cfg, cl, dx, dy) ==
  IF ~MoveAccepted(cfg, cl, dx, dy)
  THEN Before
  ELSE LET newPos == <<cl.playerPos[1] + dx, cl.playerPos[2] + dy>>
           goal   == newPos[1] = cfg.size - 1 /\ newPos[2] = cfg.size - 1
           maxScore == MaxScoreOf(cfg)
       IN  [playerPos    |-> newPos,
            moveCount    |-> moveCount + 1,
            trail        |-> Append(trail, newPos),
            gameState    |-> IF goal THEN "won" ELSE gameState,
            lastMoveTime |-> now,
            timers       |-> IF goal
                             THEN Append(timers,
                                    [score |-> Score(maxScore, now - startTime),
                                     maxScore |-> maxScore,
                                     due |-> now + CompleteDelay])
                             ELSE timers]

\* ------------------------------------------------------------- inputs
Keys == {"arrowup", "arrowdown", "arrowleft", "arrowright"}

None == <<0, 0>>

\* Lines 393-401: the direction the loop asks for, by the keys held.  The
\* letters w, s, a, d are aliases of the arrows.
LoopMove(keysPressed) ==
  IF "arrowup" \in keysPressed THEN <<0, -1>>
  ELSE IF "arrowdown" \in keysPressed THEN <<0, 1>>
  ELSE IF "arrowleft" \in keysPressed THEN <<-1, 0>>
  ELSE IF "arrowright" \in keysPressed THEN <<1, 0>>
  ELSE None

\* The four directions of the buttons and of the swipes.
Moves == {<<0, -1>>, <<1, 0>>, <<0, 1>>, <<-1, 0>>}

\* ------------------------------------------------------------- the game loop
TimedOut(cfg, elapsedMs) ==
  cfg.timeLimit > 0 /\ elapsedMs >= cfg.timeLimit * MsPerSecond

\* loop() of the render whose closure is cl, with the keys held: the values
\* after the frame.  movePlayer runs first, the timeout check after it.
loop(cfg, cl, keysPressed) ==
  LET d  == LoopMove(keysPressed)
      m  == IF d = None THEN Before ELSE movePlayer(cfg, cl, d[1], d[2])
      elapsedMs == now - startTime
      out == TimedOut(cfg, elapsedMs)
  IN  [m |-> [m EXCEPT !.gameState = IF out THEN "lost" ELSE m.gameState],
       timeElapsed |-> elapsedMs,
       loopOn |-> ~out]

\* Store the values a handler leaves.
Commit(m) ==
  /\ playerPos' = m.playerPos
  /\ moveCount' = m.moveCount
  /\ trail' = m.trail
  /\ gameState' = m.gameState
  /\ lastMoveTime' = m.lastMoveTime
  /\ timers' = m.timers

\* The frame at the current clock value has not run yet.
FrameDue == loopOn /\ timeElapsed # now - startTime

\* One animation frame: the scheduled loop runs with the keys held.
Frame ==
  /\ phase = "play"
  /\ loopOn
  /\ \E keysPressed \in SUBSET Keys :
       /\ (moveCount >= MaxMoves => keysPressed = {})
       /\ LET f == loop(Cfg, seen, keysPressed)
          IN  /\ Commit(f.m)
              /\ timeElapsed' = f.timeElapsed
              /\ loopOn' = f.loopOn
  /\ UNCHANGED <<shellVars, tileVars, difficulty, mounts, phase, genVars, maze, startTime, now, seen,
                 touchSeen, completed>>

\* Click that also knocks down the wall of the player's cell in the direction
\* of the button.
Click_BreaksWall ==
  /\ phase = "play"
  /\ moveCount < MaxMoves
  /\ \E dir \in DirNames :
       /\ Commit(movePlayer(Cfg, seen, dirMap(dir).dx, dirMap(dir).dy))
       /\ maze' = IF maze = <<>> THEN maze
                  ELSE BraidCell(Cfg.size, maze, playerPos, dir)
  /\ UNCHANGED <<shellVars, tileVars, difficulty, mounts, phase, genVars, timeElapsed, startTime, now,
                 handlerVars, completed>>

\* A click on one of the four buttons: handleMobileMove of the last render.
Click ==
  /\ phase = "play"
  /\ moveCount < MaxMoves
  /\ \E d \in Moves : Commit(movePlayer(Cfg, seen, d[1], d[2]))
  /\ UNCHANGED <<shellVars, tileVars, difficulty, mounts, phase, genVars, maze, timeElapsed, startTime, now,
                 handlerVars, completed>>

\* handleTouchEnd of the render in which the touch effect last ran, for a
\* swipe of more than 30 px in direction d.
Swipe ==
  /\ phase = "play"
  /\ moveCount < MaxMoves
  /\ \E d \in Moves :
       Commit(IF touchSeen.gameState # "playing"
              THEN Before
              ELSE movePlayer(Cfg, touchSeen, d[1], d[2]))
  /\ UNCHANGED <<shellVars, tileVars, difficulty, mounts, phase, genVars, maze, timeElapsed, startTime, now,
                 handlerVars, completed>>

\* React commits a render of the queued updates and runs its effects: the
\* handlers get the new closures; the touch effect runs again only when
\* gameState changed; the game loop effect cancels the scheduled frame and
\* schedules one again only while playing.
Render ==
  /\ phase = "play"
  /\ seen # Snapshot
  /\ seen' = Snapshot
  /\ touchSeen' = IF seen.gameState # gameState THEN Snapshot ELSE touchSeen
  /\ loopOn' = (gameState = "playing")
  /\ UNCHANGED <<shellVars, tileVars, difficulty, mounts, phase, genVars, stateVars, refVars, now, timers,
                 completed>>

\* Time passes.  While the loop is scheduled a frame runs at every clock value.
StartClock == 10 * MOVE_COOLDOWN

Tick ==
  /\ phase \in {"play", "unmounted"}
  /\ ~FrameDue
  /\ now < StartClock + MaxTicks * TickMs
  /\ now' = now + TickMs
  /\ UNCHANGED <<shellVars, tileVars, difficulty, mounts, phase, genVars, stateVars, refVars, handlerVars,
                 timers, completed>>

\* The component is unmounted: its state, refs and closures are gone and the
\* scheduled frame is cancelled by the cleanup of the game loop effect.  The
\* pending timeouts are not cleared.  gameState and playerPos keep the values
\* the attempt ended with.
Unmount ==
  /\ phase' = "unmounted"
  /\ grid' = <<>>
  /\ stack' = <<>>
  /\ braidI' = 0
  /\ pushes' = 0
  /\ pops' = 0
  /\ maze' = <<>>
  /\ trail' = <<>>
  /\ moveCount' = 0
  /\ timeElapsed' = 0
  /\ lastMoveTime' = 0
  /\ startTime' = 0
  /\ seen' = [gameState |-> gameState, playerPos |-> <<0, 0>>, maze |-> <<>>]
  /\ touchSeen' = seen'
  /\ loopOn' = FALSE
  /\ UNCHANGED <<shellVars, tileVars, difficulty, mounts, size, gameState, playerPos, now>>

\* A pending timeout fires: onComplete(score, maxScore).  The shell shows the
\* completion screen, which unmounts the game.
TimerFire ==
  /\ phase \in {"play", "unmounted"}
  /\ timers # <<>>
  /\ Head(timers).due <= now
  /\ completed' = Append(completed, <<Head(timers).score, Head(timers).maxScore>>)
  /\ timers' = Tail(timers)
  /\ Unmount

\* Back, Escape or "Back to Menu": onBack; the shell returns to the level
\* select, which unmounts the game.
Back ==
  /\ phase = "play"
  /\ Unmount
  /\ UNCHANGED <<timers, completed>>

\* startLevel(diff, lvl) on the level select, or nextLevel on the completion
\* screen: the shell sets the difficulty and the level and shows the game
\* again, which mounts a new MazeRunner: its state and refs have their
\* initial values, startTime is Date.now().  Pending timeouts of the earlier
\* attempt stay.
StartLevel ==
  /\ phase = "unmounted"
  /\ mounts < MaxMounts
  /\ now >= StartClock + RestartTick * TickMs
  /\ mounts' = mounts + 1
  /\ \E diff \in Difficulties :
       /\ difficulty' = diff
       /\ size' = config[diff].size
  /\ phase' = "mounted"
  /\ gameState' = "playing"
  /\ playerPos' = <<0, 0>>
  /\ startTime' = now
  /\ seen' = [gameState |-> "playing", playerPos |-> <<0, 0>>, maze |-> <<>>]
  /\ touchSeen' = seen'
  /\ UNCHANGED <<grid, stack, braidI, pushes, pops, maze, trail, moveCount,
                 timeElapsed, lastMoveTime, loopOn, now, timers, completed>>
  /\ UNCHANGED <<shellVars, tileVars>>

\* ------------------------------------------------------------- the shell (GameShell)
\* The level indexes of a difficulty: createDefaultLevels has 5 levels in the
\* source, LevelCount in the model.
Levels == 0 .. LevelCount - 1

Max(a, b) == IF a >= b THEN a ELSE b

\* createDefaultLevels(count): level 0 unlocked, nothing completed
createDefaultLevels ==
  [i \in Levels |->
    [completed |-> FALSE, stars |-> 0, bestScore |-> 0, unlocked |-> (i = 0)]]

\* createDefaultGameProgress(), which getGameProgress returns when nothing is
\* stored.  totalPlayTime, lastPlayed and gamesPlayed are not read by the shell
\* and are left out.
createDefaultGameProgress ==
  [unlockedDifficulty |-> "easy",
   levels |-> [d \in Difficulties |-> createDefaultLevels],
   bestScore |-> 0]

\* completeLevel(gameSlug, difficulty, levelIndex, stars, score) on the stored
\* progress p: the progress it stores and returns.
completeLevel(p, diff, levelIndex, stars, score) ==
  LET p1 == [p EXCEPT !.levels[diff][levelIndex].completed = TRUE,
                      !.levels[diff][levelIndex].stars = Max(@, stars),
                      !.levels[diff][levelIndex].bestScore = Max(@, score)]
      p2 == IF levelIndex + 1 < LevelCount
            THEN [p1 EXCEPT !.levels[diff][levelIndex + 1].unlocked = TRUE]
            ELSE p1
      allComplete == \A i \in Levels : p2.levels[diff][i].completed
      p3 == IF allComplete
            THEN IF diff = "easy"
                 THEN [p2 EXCEPT !.unlockedDifficulty = "hard",
                                 !.levels["hard"][0].unlocked = TRUE]
                 ELSE IF diff = "hard"
                 THEN [p2 EXCEPT !.unlockedDifficulty = "insane",
                                 !.levels["insane"][0].unlocked = TRUE]
                 ELSE p2
            ELSE p2
  IN  [p3 EXCEPT !.bestScore = Max(@, score)]

\* const pct = maxScore > 0 ? score / maxScore : 0, kept as a fraction
\* <<numerator, denominator>> with a positive denominator
Pct(score, maxScore) == IF maxScore > 0 THEN <<score, maxScore>> ELSE <<0, 1>>

\* pct >= tenths / 10
AtLeast(pct, tenths) == 10 * pct[1] >= tenths * pct[2]

\* Stars with > in place of >=.
Stars_Strict(score, maxScore) ==
  LET pct == Pct(score, maxScore)
  IN  IF 10 * pct[1] > 9 * pct[2] THEN 3
      ELSE IF 10 * pct[1] > 6 * pct[2] THEN 2
      ELSE 1

\* let stars = 1; if (pct >= 0.9) stars = 3; else if (pct >= 0.6) stars = 2
Stars(score, maxScore) ==
  LET pct == Pct(score, maxScore)
  IN  IF AtLeast(pct, 9) THEN 3
      ELSE IF AtLeast(pct, 6) THEN 2
      ELSE 1

\* isUnlocked of the level select for difficulty diff
isUnlocked(p, diff) ==
  \/ diff = "easy"
  \/ diff = "hard" /\ p.unlockedDifficulty \in {"hard", "insane"}
  \/ diff = "insane" /\ p.unlockedDifficulty = "insane"

\* What handleComplete of a render closes over.
Selection == [selectedDifficulty |-> selectedDifficulty,
              selectedLevel |-> selectedLevel]

\* handleComplete(score, maxScore) of the render whose selection is cl.  The
\* progress is read from the store and written back by completeLevel, and the
\* state progress is set to what was stored: one variable holds both.
handleComplete(cl, score, maxScore) ==
  LET stars == Stars(score, maxScore)
  IN  /\ completionStars' = stars
      /\ completionScore' = score
      /\ progress' = completeLevel(progress, cl.selectedDifficulty,
                                   cl.selectedLevel, stars, score)
      /\ view' = "complete"

\* The pairs (score, maxScore) a game reports.
Reports == {<<0, 10>>, <<6, 10>>, <<9, 10>>}

\* A click on an unlocked level of an unlocked difficulty of the level
\* select: startLevel(diff, lvl).
startLevel ==
  /\ view = "select"
  /\ \E diff \in Difficulties : \E lvl \in Levels :
       /\ isUnlocked(progress, diff)
       /\ progress.levels[diff][lvl].unlocked
       /\ selectedDifficulty' = diff
       /\ selectedLevel' = lvl
  /\ view' = "playing"
  /\ UNCHANGED <<completionStars, completionScore, progress, pending>>
  /\ UNCHANGED <<difficulty, mazeVars, tileVars>>

\* Back, "Exit to Menu", the game's onBack (Escape in the maze game) or
\* "Level Select": goToSelect.  getGameProgress returns the stored progress.
goToSelect ==
  /\ view \in {"playing", "complete"}
  /\ view' = "select"
  /\ UNCHANGED <<selectedDifficulty, selectedLevel, completionStars,
                 completionScore, progress, pending>>
  /\ UNCHANGED <<difficulty, mazeVars, tileVars>>

\* "Next Level" on the completion screen.
nextLevel ==
  /\ view = "complete"
  /\ IF selectedLevel + 1 < LevelCount
          /\ progress.levels[selectedDifficulty][selectedLevel + 1].unlocked
     THEN /\ selectedLevel' = selectedLevel + 1
          /\ view' = "playing"
     ELSE /\ view' = "select"
          /\ UNCHANGED selectedLevel
  /\ UNCHANGED <<selectedDifficulty, completionStars, completionScore, progress,
                 pending>>
  /\ UNCHANGED <<difficulty, mazeVars, tileVars>>

\* The game that is shown is won and schedules its completion call: the maze
\* game's setTimeout(() => onComplete(score, maxScore), 500), onComplete being
\* handleComplete of the shell's current render.
GameWon ==
  /\ view = "playing"
  /\ Len(pending) < MaxPending
  /\ \E r \in Reports :
       pending' = Append(pending, [cl |-> Selection, score |-> r[1],
                                   maxScore |-> r[2]])
  /\ UNCHANGED <<view, selectedDifficulty, selectedLevel, completionStars,
                 completionScore, progress>>
  /\ UNCHANGED <<difficulty, mazeVars, tileVars>>

\* The oldest pending timeout fires: onComplete(score, maxScore).  The timeout
\* is not cleared when the game is unmounted.
onComplete ==
  /\ pending # <<>>
  /\ pending' = Tail(pending)
  /\ handleComplete(Head(pending).cl, Head(pending).score, Head(pending).maxScore)
  /\ UNCHANGED <<selectedDifficulty, selectedLevel>>
  /\ UNCHANGED <<difficulty, mazeVars, tileVars>>

\* GameShell after its mount effect, with nothing stored.
ShellInit ==
  /\ view = "select"
  /\ selectedDifficulty = "easy"
  /\ selectedLevel = 0
  /\ completionStars = 0
  /\ completionScore = 0
  /\ progress = createDefaultGameProgress
  /\ pending = <<>>

\* ------------------------------------------------------------- the tile-slide puzzle (TileSlide)
\* getGridSize() is 3, 4 or 5 by the difficulty; the model has one size.
gridSize == TileGridSize

totalTiles == gridSize * gridSize

\* getTimeLimit(): null, 120 or 90 seconds; Null stands for null, and the
\* limits are scaled to 2 and 1.
TileTimeLimit(diff) ==
  IF diff = "easy" THEN Null ELSE IF diff = "hard" THEN 2 ELSE 1

\* getValidMoves(emptyPos, size): the indexes next to emptyPos
getValidMoves(emptyPos, n) ==
  LET row == emptyPos \div n
      col == emptyPos % n
  IN  (IF row > 0 THEN {emptyPos - n} ELSE {})
      \cup (IF row < n - 1 THEN {emptyPos + n} ELSE {})
      \cup (IF col > 0 THEN {emptyPos - 1} ELSE {})
      \cup (IF col < n - 1 THEN {emptyPos + 1} ELSE {})

\* [a[i], a[j]] = [a[j], a[i]]
Swap(a, i, j) == [a EXCEPT ![i] = a[j], ![j] = a[i]]

\* const solved = Array.from({ length: totalTiles }, (_, i) => i)
solved == [i \in 0 .. totalTiles - 1 |-> i]

\* isSolved(tilesArray)
isSolved(tilesArray) == \A i \in DOMAIN tilesArray : tilesArray[i] = i

\* One iteration of for (i = 0; i < shuffleMoves; i++): the slot and a random
\* valid neighbour change places in current, and the slot is there.
ShuffleStep ==
  /\ tiles = <<>>
  /\ shuffle.i < shuffleMoves
  /\ \E randomMove \in getValidMoves(shuffle.empty, gridSize) :
       shuffle' = [current |-> Swap(shuffle.current, shuffle.empty, randomMove),
                   empty |-> randomMove,
                   i |-> shuffle.i + 1]
  /\ UNCHANGED <<tiles, emptyIndex, moves, timeLeft, gameStarted, gameOver, scheduled>>
  /\ UNCHANGED <<difficulty, mazeVars, shellVars>>

\* The loop of initializePuzzle() is over: the state is set from its locals.
initializePuzzle ==
  /\ tiles = <<>>
  /\ shuffle.i = shuffleMoves
  /\ tiles' = shuffle.current
  /\ emptyIndex' = shuffle.empty
  /\ moves' = 0
  /\ timeLeft' = TileTimeLimit(difficulty)
  /\ gameStarted' = FALSE
  /\ gameOver' = FALSE
  /\ UNCHANGED <<shuffle, scheduled>>
  /\ UNCHANGED <<difficulty, mazeVars, shellVars>>

\* score = Math.max(100, Math.min(1000, maxScore - (moves + 1 - optimalMoves) * 10))
TileScore(m) ==
  LET optimalMoves == gridSize * gridSize * 2
      score == TileMaxScore - (m + 1 - optimalMoves) * 10
  IN  Max(TileMinScore, IF score < TileMaxScore THEN score ELSE TileMaxScore)

\* handleTileClick(index) for a click on a tile that is rendered: the cell
\* whose value is 0 is not rendered.
handleTileClick ==
  /\ tiles # <<>>
  /\ moves < MaxTileMoves
  /\ \E index \in { i \in DOMAIN tiles : tiles[i] # 0 } :
       IF gameOver
       THEN UNCHANGED <<tiles, emptyIndex, moves, gameStarted, gameOver, scheduled>>
       ELSE /\ gameStarted' = TRUE
            /\ IF index \notin getValidMoves(emptyIndex, gridSize)
               THEN UNCHANGED <<tiles, emptyIndex, moves, gameOver, scheduled>>
               ELSE LET newTiles == Swap(tiles, emptyIndex, index)
                    IN  /\ tiles' = newTiles
                        /\ emptyIndex' = index
                        /\ moves' = moves + 1
                        /\ IF isSolved(newTiles)
                           THEN /\ gameOver' = TRUE
                                /\ scheduled' = Append(scheduled,
                                     <<TileScore(moves), TileMaxScore>>)
                           ELSE UNCHANGED <<gameOver, scheduled>>
  /\ UNCHANGED <<shuffle, timeLeft>>
  /\ UNCHANGED <<difficulty, mazeVars, shellVars>>

\* The interval of the timer effect fires, a second after the one before.
TimerTick ==
  /\ gameStarted
  /\ ~gameOver
  /\ TileTimeLimit(difficulty) # Null
  /\ IF timeLeft = Null \/ timeLeft <= 1
     THEN /\ gameOver' = TRUE
          /\ scheduled' = Append(scheduled, <<0, TileMaxScore>>)
          /\ timeLeft' = 0
     ELSE /\ timeLeft' = timeLeft - 1
          /\ UNCHANGED <<gameOver, scheduled>>
  /\ UNCHANGED <<shuffle, tiles, emptyIndex, moves, gameStarted>>
  /\ UNCHANGED <<difficulty, mazeVars, shellVars>>

\* TileSlide after its first render, for the difficulty of the game, with the
\* mount effect at the start of the loop of initializePuzzle: current is the
\* solved board, the slot is the last index.
TileInit ==
  /\ shuffle = [current |-> solved, empty |-> totalTiles - 1, i |-> 0]
  /\ tiles = <<>>
  /\ emptyIndex = totalTiles - 1
  /\ moves = 0
  /\ timeLeft = TileTimeLimit(difficulty)
  /\ gameStarted = FALSE
  /\ gameOver = FALSE
  /\ scheduled = <<>>

\* ------------------------------------------------------------- specifications
\* The state after the first render of a mounted MazeRunner.
Mounted ==
  /\ phase = "mounted"
  /\ grid = <<>>
  /\ stack = <<>>
  /\ braidI = 0
  /\ pushes = 0
  /\ pops = 0
  /\ maze = <<>>
  /\ gameState = "playing"
  /\ playerPos = <<0, 0>>
  /\ trail = <<>>
  /\ moveCount = 0
  /\ timeElapsed = 0
  /\ lastMoveTime = 0
  /\ now = StartClock
  /\ startTime = StartClock
  /\ seen = [gameState |-> "playing", playerPos |-> <<0, 0>>, maze |-> <<>>]
  /\ touchSeen = seen
  /\ loopOn = FALSE
  /\ timers = <<>>
  /\ completed = <<>>

Init ==
  /\ difficulty \in Difficulties
  /\ mounts = 1
  /\ size = config[difficulty].size
  /\ Mounted
  /\ ShellInit
  /\ TileInit

Generate == BuildGrid \/ CarveStep \/ BraidStep \/ Initialize

Next ==
  \/ Generate
  \/ Frame
  \/ Click
  \/ Swipe
  \/ Render
  \/ Tick
  \/ TimerFire
  \/ Back

Spec == Init /\ [][Next]_vars

\* The game under the shell: a level can be started again after the game was
\* left or completed.
ShellNext == Next \/ StartLevel

SpecShell == Init /\ [][ShellNext]_vars

\* The delay of the oldest pending timeout passes while the game is at rest:
\* the loop is not scheduled, so no frame runs in between.
DelayPasses ==
  /\ phase = "play"
  /\ ~loopOn
  /\ timers # <<>>
  /\ now < Head(timers).due
  /\ now' = Head(timers).due
  /\ UNCHANGED <<shellVars, tileVars, difficulty, mounts, phase, genVars, stateVars, refVars, handlerVars,
                 timers, completed>>

\* The game with the delay of a pending onComplete waited for.
DelayNext == Next \/ DelayPasses

SpecDelay == Init /\ [][DelayNext]_vars

\* No MazeRunner is mounted.
NoMaze ==
  /\ mounts = 0
  /\ size = 0
  /\ phase = "unmounted"
  /\ grid = <<>>
  /\ stack = <<>>
  /\ braidI = 0
  /\ pushes = 0
  /\ pops = 0
  /\ maze = <<>>
  /\ gameState = "playing"
  /\ playerPos = <<0, 0>>
  /\ trail = <<>>
  /\ moveCount = 0
  /\ timeElapsed = 0
  /\ lastMoveTime = 0
  /\ now = StartClock
  /\ startTime = 0
  /\ seen = [gameState |-> "playing", playerPos |-> <<0, 0>>, maze |-> <<>>]
  /\ touchSeen = seen
  /\ loopOn = FALSE
  /\ timers = <<>>
  /\ completed = <<>>

\* GameShell from its mount on, the game it shows being represented by the
\* completion calls it schedules.
ProgressInit ==
  /\ difficulty = "easy"
  /\ NoMaze
  /\ ShellInit
  /\ TileInit

ProgressNext == startLevel \/ goToSelect \/ nextLevel \/ GameWon \/ onComplete

SpecProgress == ProgressInit /\ [][ProgressNext]_vars

\* handleComplete as a function of its arguments: the game of the first level
\* has scheduled its completion call with some score and maximal score.
StarsInit ==
  /\ difficulty = "easy"
  /\ NoMaze
  /\ TileInit
  /\ view = "playing"
  /\ selectedDifficulty = "easy"
  /\ selectedLevel = 0
  /\ completionStars = 0
  /\ completionScore = 0
  /\ progress = createDefaultGameProgress
  /\ \E score \in 0 .. MaxReport : \E maxScore \in -1 .. MaxReport :
       pending = << [cl |-> [selectedDifficulty |-> "easy", selectedLevel |-> 0],
                    score |-> score, maxScore |-> maxScore] >>

StarsNext == onComplete

SpecStars == StarsInit /\ [][StarsNext]_vars

\* TileSlide alone, from its first render on.
TileSlideInit ==
  /\ difficulty \in Difficulties
  /\ NoMaze
  /\ ShellInit
  /\ TileInit

TileNext == ShuffleStep \/ initializePuzzle \/ handleTileClick \/ TimerTick

SpecTile == TileSlideInit /\ [][TileNext]_vars

\* generateMaze alone, as a function of its argument and of the difficulty
GenInit ==
  /\ difficulty \in Difficulties
  /\ mounts = 1
  /\ size \in 0 .. GenMaxSize
  /\ Mounted
  /\ ShellInit
  /\ TileInit

GenNext == BuildGrid \/ CarveStep \/ BraidStep \/ Initialize

SpecGen == GenInit /\ [][GenNext]_vars

\* generateMaze and the effect that calls it run synchronously to their end:
\* a step that can be taken is taken.
SpecGenFair == SpecGen /\ WF_vars(GenNext)

\* ------------------------------------------------------------- the opening graph
\* The cell next to c in direction i of directions.
Step(c, i) == <<c[1] + directions[i].dx, c[2] + directions[i].dy>>

\* The wall pair between c and its neighbour in direction i is open: both
\* flags are cleared.
PairOpen(g, c, i) ==
  ~g[c][directions[i].dir] /\ ~g[Step(c, i)][directions[i].opposite]

\* The largest grid of the model, and for each size and cell the directions
\* that stay inside the grid.
MaxGrid == IF GenMaxSize > 3 THEN GenMaxSize ELSE 3

InnerDirs ==
  [n \in 0 .. MaxGrid |->
    [c \in Cells(n) |->
      { i \in 1 .. 4 : InBounds(n, Step(c, i)[1], Step(c, i)[2]) }]]

\* The cells joined to cell c by an open wall pair.
OpenNbrs(n, g, c) ==
  { Step(c, i) : i \in { j \in InnerDirs[n][c] : PairOpen(g, c, j) } }

\* The open wall pairs of grid g of size n, each as the set of its two cells.
OpenPairs(n, g) ==
  UNION { { {c, d} : d \in OpenNbrs(n, g, c) } : c \in Cells(n) }

\* The cells that paths of openings reach from the cells of done, whose
\* cells outside frontier have their neighbours in done already.
RECURSIVE ReachFrom(_, _, _, _)
ReachFrom(n, g, done, frontier) ==
  IF frontier = {} THEN done
  ELSE LET more == UNION { OpenNbrs(n, g, c) : c \in frontier } \ done
       IN  ReachFrom(n, g, done \cup more, more)

Reach(n, g, S) == ReachFrom(n, g, S, S)

Connected(n, g) == Reach(n, g, {<<0, 0>>}) = Cells(n)

RECURSIVE Sum(_, _)
Sum(f, S) ==
  IF S = {} THEN 0
  ELSE LET x == CHOOSE y \in S : TRUE IN f[x] + Sum(f, S \ {x})

\* The number of simple paths of openings that start at cell a and avoid the
\* cells of seenCells, the path of a alone included.
RECURSIVE NPathsFrom(_, _, _, _)
NPathsFrom(n, g, a, seenCells) ==
  LET nxt == OpenNbrs(n, g, a) \ seenCells
  IN  1 + Sum([c \in nxt |-> NPathsFrom(n, g, c, seenCells \cup {a})], nxt)

\* Wall symmetry of grid g of size n.
Symmetric(n, g) ==
  \A c \in Cells(n) : \A i \in InnerDirs[n][c] :
    g[c][directions[i].dir] = g[Step(c, i)][directions[i].opposite]

\* The carver has finished and no extra path has been tried yet.
CarveDone ==
  \/ phase = "carve" /\ stack = <<>>
  \/ phase = "braid" /\ braidI = 0
  \/ phase \in {"return", "play"} /\ difficulty # "hard"

\* ------------------------------------------------------------- claims
\* C1: for every size N >= 2 and every sequence of random choices the maze
\* the carver leaves, before any extra path, is perfect: exactly N*N-1 wall
\* pairs are open, the opening graph is connected (hence a tree), and every
\* two cells are joined by exactly one simple path of openings: the simple
\* paths that start at a cell are N*N in number and reach all N*N cells, so
\* there is one for each cell.
C1_PerfectMaze ==
  (CarveDone /\ size >= 2) =>
    /\ Cardinality(OpenPairs(size, grid)) = size * size - 1
    /\ \A a \in Cells(size) :
         /\ Reach(size, grid, {a}) = Cells(size)
         /\ NPathsFrom(size, grid, a, {}) = size * size

C1_Witness ==
  /\ CarveDone
  /\ size = GenMaxSize
  /\ size >= 3
  /\ ~grid[<<1, 1>>].left
  /\ ~grid[<<1, 1>>].top

\* C2: wall symmetry holds in every state of carving, of the extra paths and
\* of play: the flags of two adjacent cells that face each other are equal.
C2_WallSymmetry ==
  \A g \in {grid, maze, seen.maze, touchSeen.maze} \ {<<>>} : Symmetric(size, g)

C2_Witness ==
  /\ phase = "play"
  /\ difficulty = "hard"
  /\ Cardinality(OpenPairs(size, maze)) > size * size - 1
  /\ moveCount > 0

\* C3: during and after the extra-paths pass the opening graph is connected,
\* the start cell and the goal cell reach each other, and at least N*N-1
\* wall pairs are open.
C3_BraidKeepsConnected ==
  (phase \in {"braid", "return", "play"} /\ size >= 2) =>
    /\ LET fromStart == Reach(size, grid, {<<0, 0>>})
       IN  fromStart = Cells(size) /\ <<size - 1, size - 1>> \in fromStart
    /\ <<0, 0>> \in Reach(size, grid, {<<size - 1, size - 1>>})
    /\ Cardinality(OpenPairs(size, grid)) >= size * size - 1

C3_Witness ==
  /\ phase = "return"
  /\ difficulty = "hard"
  /\ braidI >= 2
  /\ Cardinality(OpenPairs(size, grid)) = size * size + 1

\* C10: a size below 2 is rejected: no grid and no maze is produced for it.
C10_SmallSizeRejected ==
  size < 2 => (phase \notin {"carve", "braid", "return", "play"} /\ maze = <<>>)

\* ------------------------------------------------------------- play: claims
Goal == <<Cfg.size - 1, Cfg.size - 1>>

\* The closures a handler can run with.
Closures == {seen, touchSeen}

\* The wall flag of cell c that faces the cell at offset d.
FlagToward(g, c, d) ==
  g[c][directions[CHOOSE i \in 1 .. 4 :
                    directions[i].dx = d[1] /\ directions[i].dy = d[2]].dir]

\* The target of a move by d from the cell the closure holds is outside the
\* grid or behind a standing wall.
Blocked(cl, d) ==
  \/ <<cl.playerPos[1] + d[1], cl.playerPos[2] + d[2]>> \notin Cells(Cfg.size)
  \/ FlagToward(cl.maze, cl.playerPos, d)

\* C4: a move attempt whose target cell is outside the grid or behind a
\* standing wall of the cell the handler holds as the current one is a no-op:
\* position, move count, trail, last-move time, game state (and the pending
\* completion calls) are what they were, and nothing is raised.
C4_BlockedMoveIsNoOp ==
  phase = "play" =>
    \A cl \in Closures : \A d \in Moves :
      (cl.maze # <<>> /\ Blocked(cl, d)) =>
        movePlayer(Cfg, cl, d[1], d[2]) = Before

\* A move is blocked by a wall alone: the game is on, the cooldown is over
\* and the target is inside the grid, after an accepted move.
C4_Witness ==
  /\ phase = "play"
  /\ seen = Snapshot
  /\ gameState = "playing"
  /\ moveCount >= 1
  /\ now - lastMoveTime >= MOVE_COOLDOWN
  /\ \E d \in Moves :
       /\ <<playerPos[1] + d[1], playerPos[2] + d[2]>> \in Cells(Cfg.size)
       /\ FlagToward(maze, playerPos, d)

\* C5: a move attempt takes the game state to won if and only if the move is
\* accepted and the new position is the goal cell: the state becomes won only
\* by an accepted move onto the goal cell, and an accepted move onto the goal
\* cell leaves the state won.
WonIffGoalStep ==
  /\ (gameState # "won" /\ gameState' = "won")
       => (moveCount' = moveCount + 1 /\ playerPos' = Goal)
  /\ (moveCount' = moveCount + 1 /\ playerPos' = Goal) => gameState' = "won"

C5_WonIffGoalReached == [][WonIffGoalStep]_vars

\* C6: the player is inside the grid, and every change of the position goes
\* from the player's current cell to an adjacent cell through an open wall
\* pair, also for a handler that runs before the render of an accepted move.
ThroughOpeningStep ==
  playerPos' # playerPos =>
    \E i \in 1 .. 4 : /\ Step(playerPos, i) = playerPos'
                      /\ PairOpen(maze, playerPos, i)

C6_MovesFollowOpenings ==
  /\ [](playerPos \in Cells(Cfg.size))
  /\ [][ThroughOpeningStep]_vars

\* C7: won and lost are terminal: from either the game state never changes
\* and no move attempt changes the position.
TerminalStep ==
  gameState \in {"won", "lost"} =>
    (gameState' = gameState /\ playerPos' = playerPos)

C7_WonLostTerminal == [][TerminalStep]_vars

Chebyshev(c, p) ==
  IF Abs(c[1] - p[1]) > Abs(c[2] - p[2])
  THEN Abs(c[1] - p[1]) ELSE Abs(c[2] - p[2])

\* C8: a cell is visible (not in fog) if and only if its Chebyshev distance
\* to the player position of the render is at most the fog radius, and with
\* the infinite radius every cell is visible; with radius 3 and the player at
\* (5,5), cell (9,9) is in fog and cell (7,6) is visible.
C8_FogIsChebyshev ==
  /\ \A c \in Cells(Cfg.size) :
       ~isInFog(Cfg.fogRadius, seen.playerPos, c[1], c[2])
         <=> (~Cfg.fogRadius.finite
                \/ Chebyshev(c, seen.playerPos) <= Cfg.fogRadius.r)
  /\ isInFog(Finite(3), <<5, 5>>, 9, 9)
  /\ ~isInFog(Finite(3), <<5, 5>>, 7, 6)
  /\ \A c \in Cells(Cfg.size) : ~isInFog(Infinity, seen.playerPos, c[1], c[2])

C8_Witness ==
  /\ phase = "play"
  /\ difficulty = "insane"
  /\ seen.playerPos # <<0, 0>>
  /\ \E c, e \in Cells(Cfg.size) :
       /\ c # seen.playerPos
       /\ ~isInFog(Cfg.fogRadius, seen.playerPos, c[1], c[2])
       /\ isInFog(Cfg.fogRadius, seen.playerPos, e[1], e[2])

\* The fog radii a run may have.
FogRadii == {Infinity} \cup { Finite(r) : r \in 0 .. 3 }

\* C9: the fog radius does not affect movement: in every state, whatever the
\* handler and its input, the values the handler leaves (position, trail,
\* move count, game state, last-move time, completion calls, loop) are the
\* same for every fog radius.  Two runs with the same maze, inputs and times
\* that differ in the radius alone are then in the same state step by step.
C9_FogDoesNotAffectMoves ==
  phase = "play" =>
    /\ \A cl \in Closures : \A d \in Moves :
         LET m == movePlayer(Cfg, cl, d[1], d[2])
         IN  \A r \in FogRadii :
               movePlayer([Cfg EXCEPT !.fogRadius = r], cl, d[1], d[2]) = m
    /\ \A keysPressed \in SUBSET Keys :
         LET f == loop(Cfg, seen, keysPressed)
         IN  \A r \in FogRadii :
               loop([Cfg EXCEPT !.fogRadius = r], seen, keysPressed) = f

\* A cell that was in fog at the start has been entered.
C9_Witness ==
  /\ phase = "play"
  /\ difficulty = "insane"
  /\ isInFog(Cfg.fogRadius, <<0, 0>>, playerPos[1], playerPos[2])
  /\ moveCount >= 2

\* ------------------------------------------------------------- generation: more claims
\* The cells of grid g that are marked visited.
Visited(n, g) == { c \in Cells(n) : g[c].visited }

\* The while loop of the carver has been left.
CarveExited == phase \in {"braid", "return", "play"}

CarveCounts ==
  (size >= 2 /\ phase \in {"carve", "braid", "return", "play"}) =>
    /\ pushes = Cardinality(Visited(size, grid))
    /\ pops = pushes - Len(stack)
    /\ \A i, j \in 1 .. Len(stack) : stack[i] = stack[j] => i = j
    /\ \A i \in 1 .. Len(stack) : grid[stack[i]].visited
    /\ (CarveExited \/ stack = <<>>) =>
         /\ stack = <<>>
         /\ pushes = size * size
         /\ pops = size * size
         /\ Visited(size, grid) = Cells(size)

\* C11: for every size N >= 2 and every sequence of random choices the carver
\* leaves its loop, with an empty stack, after exactly N*N pushes and N*N
\* pops: the pushes so far are as many as the visited cells (a cell is marked
\* and pushed once, never twice), the pops are the pushes less the cells on
\* the stack, and at the end every cell is visited.
C11_CarverPushesPops ==
  /\ []CarveCounts
  /\ <>(phase \in {"return", "play", "threw"})

C11_Witness ==
  /\ phase = "return"
  /\ size = GenMaxSize
  /\ size >= 3
  /\ stack = <<>>
  /\ pushes = size * size
  /\ pops = size * size

\* C12: the extra-paths pass removes at most floor(f*N*N) wall pairs: after i
\* iterations at most i pairs were added to the N*N-1 of the carver, i never
\* exceeds floor(f*N*N), and so at most N*N-1 + floor(f*N*N) pairs are open
\* afterwards.
C12_BraidRemovesAtMost ==
  (size >= 2 /\ phase \in {"braid", "return", "play"}) =>
    /\ braidI <= ExtraPaths(size)
    /\ Cardinality(OpenPairs(size, grid)) <= size * size - 1 + braidI
    /\ Cardinality(OpenPairs(size, grid))
         <= size * size - 1 + ExtraPaths(size)

\* The pass has delivered all the extra paths asked for.
C12_Witness ==
  /\ phase = "play"
  /\ difficulty = "hard"
  /\ size = GenMaxSize
  /\ ExtraPaths(size) >= 2
  /\ braidI = ExtraPaths(size)
  /\ Cardinality(OpenPairs(size, maze)) = size * size - 1 + ExtraPaths(size)

\* No extra path is asked for: the difficulty is not hard, or floor(f*N*N) = 0.
NothingRequested == difficulty # "hard" \/ ExtraPaths(size) = 0

\* The carver's loop is over and generateMaze has not returned yet.
AfterCarve == (phase = "carve" /\ stack = <<>>) \/ phase \in {"braid", "return"}

IdentityStep ==
  (NothingRequested /\ AfterCarve) =>
    /\ grid' = grid
    /\ phase' = "play" => maze' = grid

IsTree(n, g) ==
  Cardinality(OpenPairs(n, g)) = n * n - 1 /\ Connected(n, g)

\* The extra-paths loop is entered only with the carver's loop over: the stack
\* is empty, every pop has been done, and the graph is a spanning tree.
BraidEntry ==
  (phase = "braid" /\ size >= 2) =>
    /\ stack = <<>>
    /\ pops = size * size
    /\ Visited(size, grid) = Cells(size)
    /\ braidI = 0 => IsTree(size, grid)

\* A wall flag changes either in the carver's loop, by a push, or in the
\* extra-paths loop with the stack empty and all cells joined; before the
\* first removal of the extra-paths loop the graph is still the carver's tree.
RemovalStep ==
  (size >= 2 /\ grid # <<>> /\ grid' # <<>> /\ grid' # grid) =>
    IF phase = "carve"
    THEN stack # <<>> /\ pushes' = pushes + 1 /\ braidI = 0
    ELSE /\ phase = "braid"
         /\ stack = <<>>
         /\ Connected(size, grid)
         /\ Cardinality(OpenPairs(size, grid)) >= size * size - 1
         /\ Cardinality(OpenPairs(size, grid)) < Cardinality(OpenPairs(size, grid'))

\* C14: the extra-paths pass runs strictly after the carve: no wall is removed
\* by it while the carver's stack is non-empty, and when its first removal
\* happens the opening graph is a spanning tree of all N*N cells.
C14_BraidAfterCarve ==
  /\ []BraidEntry
  /\ [][RemovalStep]_vars

\* The first removal of the extra-paths loop has just happened.
C14_Witness ==
  /\ phase = "braid"
  /\ size = GenMaxSize
  /\ braidI >= 1
  /\ stack = <<>>
  /\ Cardinality(OpenPairs(size, grid)) = size * size

\* ------------------------------------------------------------- play: more claims
\* Grid g is a finished maze: the carver has visited every cell and the cells
\* are all joined.
Complete(n, g) == Visited(n, g) = Cells(n) /\ Connected(n, g)

\* A handler whose closure has no maze yet rejects every move.
NoMazeNoMove ==
  \A cl \in Closures \cup {Snapshot} :
    cl.maze = <<>> =>
      \A d \in Moves : movePlayer(Cfg, cl, d[1], d[2]) = Before

\* Until generateMaze has returned and the maze is stored, nothing has moved.
StillAtStart ==
  phase \in {"mounted", "carve", "braid", "return"} =>
    /\ playerPos = <<0, 0>>
    /\ moveCount = 0
    /\ maze = <<>>
    /\ seen.maze = <<>>
    /\ touchSeen.maze = <<>>

\* A maze a handler can read is a finished one.
OnlyCompleteMazes ==
  \A g \in {maze, seen.maze, touchSeen.maze} \ {<<>>} : Complete(Cfg.size, g)

MoveOnStoredMazeStep ==
  ((playerPos' # playerPos \/ moveCount' # moveCount) /\ phase' = "play") =>
    /\ phase = "play"
    /\ maze # <<>>
    /\ maze' = maze
    /\ seen.maze = maze

\* C15: no move takes effect before the maze is built and stored: a move
\* attempt of a handler that has no maze yet changes nothing, nothing has
\* moved before generateMaze returns, the only mazes a handler reads are
\* finished ones, and the position and the move count change only in play on
\* the stored maze.
C15_NoMoveBeforeMaze ==
  /\ [](NoMazeNoMove /\ StillAtStart /\ OnlyCompleteMazes)
  /\ [][MoveOnStoredMazeStep]_vars

\* A frame has run with the closure of the first render, which has no maze,
\* after the maze was stored.
C15_Witness ==
  /\ phase = "play"
  /\ maze # <<>>
  /\ seen.maze = <<>>
  /\ timeElapsed > 0
  /\ moveCount = 0

\* A move attempted less than MOVE_COOLDOWN after the last accepted move
\* changes nothing, and an attempt that does not move leaves lastMoveTime.
CooldownRejects ==
  phase = "play" =>
    \A cl \in Closures \cup {Snapshot} : \A d \in Moves :
      LET m == movePlayer(Cfg, cl, d[1], d[2])
      IN  /\ now - lastMoveTime < MOVE_COOLDOWN => m = Before
          /\ m.moveCount = moveCount => m.lastMoveTime = lastMoveTime

\* lastMoveTime is 0 before the first accepted move and never in the future.
StampInPast ==
  phase = "play" =>
    /\ lastMoveTime <= now
    /\ moveCount = 0 => lastMoveTime = 0

\* An accepted move comes at least MOVE_COOLDOWN after the accepted move
\* before it and stamps lastMoveTime; any other step of play leaves the stamp.
CooldownStep ==
  (phase = "play" /\ phase' = "play") =>
    IF moveCount' # moveCount
    THEN /\ moveCount' = moveCount + 1
         /\ now - lastMoveTime >= MOVE_COOLDOWN
         /\ lastMoveTime' = now
    ELSE lastMoveTime' = lastMoveTime

\* C16: two accepted moves are at least MOVE_COOLDOWN = 150 ms apart, a move
\* attempted sooner after the last accepted move is rejected with no change of
\* state, and a rejected move does not restart the cooldown.
C16_MoveCooldown ==
  /\ [](CooldownRejects /\ StampInPast)
  /\ [][CooldownStep]_vars

\* After two accepted moves the cooldown alone stands against a third: the
\* target is inside the grid and no wall is in the way.
C16_Witness ==
  /\ phase = "play"
  /\ gameState = "playing"
  /\ seen = Snapshot
  /\ moveCount >= 2
  /\ now > lastMoveTime
  /\ now - lastMoveTime < MOVE_COOLDOWN
  /\ \E d \in Moves : ~Blocked(seen, d)

\* No step of play writes the maze or the grid it was built in.
MazeFixedStep ==
  (phase = "play" /\ phase' = "play") => (maze' = maze /\ grid' = grid)

\* In play the maze is the grid generateMaze returned, and a closure holds
\* either no maze or that one.
OneMaze ==
  phase = "play" =>
    /\ maze = grid
    /\ maze # <<>>
    /\ seen.maze \in {<<>>, maze}
    /\ touchSeen.maze \in {<<>>, maze}

\* C17: once generated the maze does not change during play: no move attempt,
\* accepted or rejected, no frame, clock step, render, win or timeout changes
\* a wall flag of a cell, until the game is unmounted.
C17_MazeImmutableInPlay ==
  /\ []OneMaze
  /\ [][MazeFixedStep]_vars

\* The game was played to its end, by a win or by the time limit, after moves.
C17_Witness ==
  /\ phase = "play"
  /\ gameState \in {"won", "lost"}
  /\ moveCount >= 2
  /\ timeElapsed > 0
  /\ maze = grid

\* ------------------------------------------------------------- the shell: claims
\* Every flag of every cell of grid g stands.
AllWalls(n, g) == \A c \in Cells(n) : \A d \in DirNames : g[c][d]

\* A level is started: nothing of the attempt before is left in the game.
FreshMountStep ==
  mounts' # mounts =>
    /\ phase' = "mounted"
    /\ grid' = <<>> /\ maze' = <<>> /\ stack' = <<>>
    /\ seen'.maze = <<>> /\ touchSeen'.maze = <<>>
    /\ playerPos' = <<0, 0>> /\ moveCount' = 0 /\ trail' = <<>>
    /\ timeElapsed' = 0 /\ gameState' = "playing"

\* generateMaze starts from a grid of the size of the new difficulty with all
\* walls standing.
FreshGridStep ==
  (phase = "mounted" /\ phase' = "carve") =>
    /\ size = Cfg.size
    /\ DOMAIN grid' = Cells(size)
    /\ AllWalls(size, grid')

\* The initialize effect stores the new maze and the start values.
ResetStep ==
  (phase = "return" /\ phase' = "play") =>
    /\ maze' = grid
    /\ Complete(Cfg.size, maze')
    /\ playerPos' = <<0, 0>>
    /\ trail' = << <<0, 0>> >>
    /\ moveCount' = 0
    /\ timeElapsed' = 0
    /\ gameState' = "playing"
    /\ startTime' = now

\* In play the trail is that of this attempt: it starts at (0,0), has one
\* cell more than the moves of the attempt and ends where the player is.
OwnTrail ==
  phase = "play" =>
    /\ Len(trail) = moveCount + 1
    /\ trail[1] = <<0, 0>>
    /\ trail[Len(trail)] = playerPos
    /\ timeElapsed <= now - startTime

\* C18: when a level is started again the maze is discarded and rebuilt from
\* a new grid with all walls standing, and nothing of the attempt before is
\* used: after the initialize effect the player is at (0,0), the trail is
\* [(0,0)], the move count and the elapsed time are 0 and the game state is
\* playing.
C18_RestartResets ==
  /\ []OwnTrail
  /\ [][FreshMountStep /\ FreshGridStep /\ ResetStep]_vars

\* A second attempt has just been initialized, after one that was won and
\* reported.
C18_Witness ==
  /\ mounts = 2
  /\ phase = "play"
  /\ completed # <<>>
  /\ trail = << <<0, 0>> >>
  /\ moveCount = 0
  /\ gameState = "playing"

\* ------------------------------------------------------------- extra paths: claims
\* The wall of cell c in direction dir faces a cell of the grid.
FacesInside(n, c, dir) == DirOf(dir) \in InnerDirs[n][c]

\* C19 as stated: the pass under-delivers by selecting a wall pair that is
\* already open: an iteration that selects a wall and changes nothing has
\* selected a pair that is already open.
C19_NoOpSelectsOpenPair ==
  (phase = "braid" /\ size >= 2) =>
    \A c \in Cells(size) : \A dir \in WallDirs(grid, c) :
      BraidCell(size, grid, c, dir) = grid =>
        (FacesInside(size, c, dir) /\ PairOpen(grid, c, DirOf(dir)))

\* C19, amended: the pass never selects a wall pair that is already open: a
\* wall it can select stands on both sides when it faces a cell of the grid.
\* An iteration that selects a wall changes nothing exactly when the wall is
\* on the boundary of the grid, and so the pass can add fewer openings than
\* floor(f*N*N): after i iterations between 0 and i pairs were added.
C19_UnderDeliversAtBoundary ==
  (phase = "braid" /\ size >= 2) =>
    /\ \A c \in Cells(size) : \A dir \in WallDirs(grid, c) :
         IF FacesInside(size, c, dir)
         THEN /\ ~PairOpen(grid, c, DirOf(dir))
              /\ grid[Step(c, DirOf(dir))][dirMap(dir).opposite]
              /\ BraidCell(size, grid, c, dir) # grid
         ELSE BraidCell(size, grid, c, dir) = grid
    /\ Cardinality(OpenPairs(size, grid)) >= size * size - 1
    /\ Cardinality(OpenPairs(size, grid)) <= size * size - 1 + braidI

\* The pass is over and has added fewer openings than were asked for.
C19_Witness ==
  /\ phase = "return"
  /\ difficulty = "hard"
  /\ size >= 2
  /\ braidI = ExtraPaths(size)
  /\ braidI >= 1
  /\ Cardinality(OpenPairs(size, grid)) < size * size - 1 + ExtraPaths(size)

\* The flags of grids g and h differ exactly in the wall of cell c in
\* direction i and in the matching wall of the neighbour, both standing in g
\* and cleared in h.
OpensPair(n, g, h, c, i) ==
  /\ i \in InnerDirs[n][c]
  /\ g[c][directions[i].dir]
  /\ g[Step(c, i)][directions[i].opposite]
  /\ h = [g EXCEPT ![c][directions[i].dir] = FALSE,
                   ![Step(c, i)][directions[i].opposite] = FALSE]

\* One iteration of the loop has run: the grid is the same or one closed pair
\* was opened, which adds one to the open pairs.
BraidIterStep ==
  (phase = "braid" /\ braidI' = braidI + 1 /\ size >= 2) =>
    \/ grid' = grid
    \/ /\ \E c \in Cells(size) : \E i \in 1 .. 4 :
             OpensPair(size, grid, grid', c, i)
       /\ Cardinality(OpenPairs(size, grid'))
            = Cardinality(OpenPairs(size, grid)) + 1

\* For every cell and wall an iteration can select: the grid stays the same
\* if and only if the wall faces outside the grid, and else exactly that
\* closed pair is opened.
BraidChoices ==
  (phase = "braid" /\ size >= 2) =>
    \A c \in Cells(size) : \A dir \in WallDirs(grid, c) :
      LET h == BraidCell(size, grid, c, dir)
      IN  /\ h = grid <=> ~FacesInside(size, c, dir)
          /\ h # grid => OpensPair(size, grid, h, c, DirOf(dir))

\* C20: each iteration of the extra-paths loop either opens exactly one wall
\* pair that was closed before it (the chosen wall of the sampled cell and the
\* matching wall of its neighbour inside the grid) or leaves every flag as it
\* was; it leaves the grid as it was only when the sampled cell has no wall
\* standing or the chosen wall faces outside the grid.
C20_BraidIterationOpensOnePair ==
  /\ []BraidChoices
  /\ [][BraidIterStep]_vars

\* An iteration has opened a pair and another has changed nothing.
C20_Witness ==
  /\ phase = "braid"
  /\ size = GenMaxSize
  /\ braidI = 2
  /\ Cardinality(OpenPairs(size, grid)) = size * size

\* ------------------------------------------------------------- carving: claims
\* The wall pair between cells a and b of grid g is open, a and b adjacent.
Joined(g, a, b) ==
  \E i \in 1 .. 4 : Step(a, i) = b /\ PairOpen(g, a, i)

\* C21: at every intermediate step of carving the open wall pairs form a tree
\* that spans exactly the visited cells: the openings are one fewer than the
\* visited cells and join exactly the visited cells to the start cell; every
\* unvisited cell has its four walls; no cell is twice on the stack; and two
\* consecutive stack entries are adjacent cells with the wall pair between
\* them open.
C21_CarveTreeOfVisited ==
  (phase = "carve" /\ size >= 1) =>
    /\ Cardinality(OpenPairs(size, grid)) = Cardinality(Visited(size, grid)) - 1
    /\ Reach(size, grid, {<<0, 0>>}) = Visited(size, grid)
    /\ \A c \in Cells(size) \ Visited(size, grid) :
         \A d \in DirNames : grid[c][d]
    /\ \A i, j \in 1 .. Len(stack) : stack[i] = stack[j] => i = j
    /\ \A k \in 1 .. Len(stack) - 1 : Joined(grid, stack[k], stack[k + 1])

\* The carver has backtracked from a dead end and descended again, with
\* cells still unvisited.
C21_Witness ==
  /\ phase = "carve"
  /\ size = GenMaxSize
  /\ pops >= 1
  /\ Len(stack) >= 3
  /\ Cardinality(Visited(size, grid)) < size * size
  /\ Cardinality(Visited(size, grid)) > Len(stack)

\* The boundary walls of grid g of size n stand.
BoundaryStands(n, g) ==
  \A c \in Cells(n) : \A i \in (1 .. 4) \ InnerDirs[n][c] : g[c][directions[i].dir]

\* No wall flag of g that is cleared stands in h.
NoWallBack(n, g, h) ==
  \A c \in Cells(n) : \A d \in DirNames : ~g[c][d] => ~h[c][d]

\* A step from a grid to a grid, or from a maze to a maze, puts no wall back.
NoWallReturnsStep ==
  /\ (grid # <<>> /\ grid' # <<>>) => NoWallBack(size, grid, grid')
  /\ (maze # <<>> /\ maze' # <<>>) => NoWallBack(size, maze, maze')
  /\ (grid # <<>> /\ maze = <<>> /\ maze' # <<>>) => NoWallBack(size, grid, maze')

\* C22: in every state of carving, of the extra paths and of play the walls
\* on the outer boundary of the grid (top of row 0, bottom of row N-1, left of
\* column 0, right of column N-1) stand, and no wall flag ever changes from
\* absent back to present.
C22_BoundaryAndNoWallBack ==
  /\ [](\A g \in {grid, maze, seen.maze, touchSeen.maze} \ {<<>>} :
          BoundaryStands(size, g))
  /\ [][NoWallReturnsStep]_vars

\* A maze with extra paths has been played to a win.
C22_Witness ==
  /\ phase = "play"
  /\ difficulty = "hard"
  /\ gameState = "won"
  /\ braidI >= 1
  /\ Cardinality(OpenPairs(size, maze)) = size * size

\* ------------------------------------------------------------- the end of an attempt: claims
\* The game state becomes lost in a frame of the game loop whose timeout
\* check holds, from the state playing.
LostByTimeoutStep ==
  (gameState # "lost" /\ gameState' = "lost") =>
    /\ phase = "play"
    /\ loopOn
    /\ timeElapsed' = now - startTime
    /\ Cfg.timeLimit > 0
    /\ now - startTime >= Cfg.timeLimit * MsPerSecond
    /\ gameState = "playing"

\* C23: the game reaches lost only through the timeout check of the game
\* loop: only when the difficulty has a positive time limit and the elapsed
\* time has reached it while the state was playing; on easy (time limit 0)
\* lost is unreachable.
C23_LostOnlyByTimeout ==
  /\ [][LostByTimeoutStep]_vars
  /\ [](Cfg.timeLimit = 0 => gameState # "lost")

\* C24: in an attempt onComplete is invoked at most once, and only for an
\* attempt that ended in won: it is never invoked for an attempt whose final
\* game state is lost, also when the goal is reached in the frame in which
\* the time limit expires.
C24_CompleteOnceOnlyForWon ==
  completed # <<>> => (Len(completed) = 1 /\ gameState = "won")

\* Integer k is the floor of num / den, den positive.
IsFloor(k, num, den) == k * den <= num /\ num < (k + 1) * den

\* The maximal score of the difficulty: its time limit in seconds, or 120 when
\* it has none.
ClaimedMaxScore == IF Cfg.timeLimit > 0 THEN Cfg.timeLimit ELSE 120

\* s = max(0, floor(maxScore - elapsed seconds)), for elapsedMs milliseconds
ClaimedScore(s, maxScore, elapsedMs) ==
  LET num == maxScore * MsPerSecond - elapsedMs
  IN  \/ s = 0 /\ num < 0
      \/ s >= 0 /\ IsFloor(s, num, MsPerSecond)

\* A win schedules onComplete with the pair of the claim, and the pair that is
\* delivered is the one that was scheduled.
WinReportStep ==
  /\ Len(timers') > Len(timers) =>
       LET t == timers'[Len(timers')]
       IN  /\ gameState' \in {"won", "lost"}
           /\ playerPos' = Goal
           /\ t.maxScore = ClaimedMaxScore
           /\ ClaimedScore(t.score, t.maxScore, now - startTime)
           /\ 0 <= t.score /\ t.score <= t.maxScore
  /\ Len(completed') > Len(completed) =>
       /\ timers # <<>>
       /\ completed'[Len(completed')] = <<Head(timers).score, Head(timers).maxScore>>

\* C25: when the maze is won the reported pair (score, maxScore) has maxScore
\* equal to the time limit of the difficulty, or 120 when there is no time
\* limit, and score = max(0, floor(maxScore - elapsed seconds)), so that
\* 0 <= score <= maxScore for every win.
C25_ScoreFormula ==
  /\ [][WinReportStep]_vars
  /\ [](\A i \in 1 .. Len(completed) :
          /\ completed[i][2] = ClaimedMaxScore
          /\ 0 <= completed[i][1] /\ completed[i][1] <= completed[i][2])

\* A win on easy, where maxScore is the default, within the first second was
\* reported: the floor takes 120 less a fraction of a second to 119.
C25_Witness ==
  /\ difficulty = "easy"
  /\ gameState = "won"
  /\ completed = << <<119, 120>> >>

\* ------------------------------------------------------------- the shell: more claims
\* The stars of the claim for a completion reported with (score, maxScore).
ClaimedStars(score, maxScore) ==
  IF maxScore > 0 /\ 10 * score >= 9 * maxScore THEN 3
  ELSE IF maxScore > 0 /\ 10 * score >= 6 * maxScore THEN 2
  ELSE 1

\* A completion call is handled: the stars shown and passed to completeLevel
\* are those of the claim, and the level keeps the larger of its stars and
\* these.
StarsStep ==
  (pending # <<>> /\ pending' = Tail(pending)) =>
    LET r    == Head(pending)
        was  == progress.levels[r.cl.selectedDifficulty][r.cl.selectedLevel]
        is   == progress'.levels[r.cl.selectedDifficulty][r.cl.selectedLevel]
    IN  /\ completionStars' \in {1, 2, 3}
        /\ completionStars' = ClaimedStars(r.score, r.maxScore)
        /\ (r.maxScore <= 0 \/ r.score = 0) => completionStars' = 1
        /\ completionScore' = r.score
        /\ is.stars = Max(was.stars, completionStars')
        /\ is.completed

\* C26: for every completion reported to the shell with (score, maxScore) the
\* stars awarded are in {1,2,3}: 3 if maxScore > 0 and score/maxScore >= 0.9,
\* otherwise 2 if maxScore > 0 and score/maxScore >= 0.6, otherwise 1 (also
\* when maxScore <= 0 and when score = 0).
C26_StarsAwarded ==
  /\ [][StarsStep]_vars
  /\ [](completionStars \in 0 .. 3)
  /\ [](view = "complete" => completionStars \in {1, 2, 3})

\* A completion with score 3 got two stars: 3 of 4 or 3 of 5.
C26_Witness ==
  /\ view = "complete"
  /\ completionScore = 3
  /\ completionStars = 2
  /\ progress.levels["easy"][0].stars = 2

\* The rank of a difficulty in the order easy, hard, insane.
Rank(diff) == IF diff = "easy" THEN 0 ELSE IF diff = "hard" THEN 1 ELSE 2

\* Nothing of progress q is below progress p: the unlocked difficulty, and of
\* every level the completed flag, the unlocked flag, the stars and the best
\* score.
NotBelow(p, q) ==
  /\ Rank(q.unlockedDifficulty) >= Rank(p.unlockedDifficulty)
  /\ \A d \in Difficulties :
       /\ isUnlocked(p, d) => isUnlocked(q, d)
       /\ \A i \in Levels :
            /\ p.levels[d][i].completed => q.levels[d][i].completed
            /\ p.levels[d][i].unlocked => q.levels[d][i].unlocked
            /\ q.levels[d][i].stars >= p.levels[d][i].stars
            /\ q.levels[d][i].bestScore >= p.levels[d][i].bestScore

MonotoneStep == NotBelow(progress, progress')

\* C27: unlocking is monotone under any sequence of completeLevel calls: once
\* unlockedDifficulty has reached hard or insane it never goes back to a lower
\* difficulty (a difficulty shown as unlocked in the level select never
\* becomes locked again), and the completed flag, the unlocked flag, the stars
\* and the best score of a level never decrease.
C27_UnlockMonotone == [][MonotoneStep]_vars

\* Level i + 1 of a difficulty is unlocked only if level i is completed.
UnlockedInOrder(p) ==
  \A d \in Difficulties : \A i \in Levels :
    (i + 1 \in Levels /\ p.levels[d][i + 1].unlocked) => p.levels[d][i].completed

\* C28: a level is only ever played when it is unlocked: whenever the view is
\* playing the selected difficulty is unlocked according to unlockedDifficulty
\* and the selected level has unlocked = true in the stored progress; and
\* within a difficulty level i+1 is unlocked only if level i has been
\* completed.
C28_OnlyUnlockedPlayed ==
  /\ view = "playing" =>
       /\ isUnlocked(progress, selectedDifficulty)
       /\ progress.levels[selectedDifficulty][selectedLevel].unlocked
  /\ UnlockedInOrder(progress)

\* The completion screen is shown, or the stored progress changes, only from
\* the view playing and by a completion of the level that is selected.
CompletionInPlayStep ==
  ((view # "complete" /\ view' = "complete") \/ progress' # progress) =>
    /\ view = "playing"
    /\ progress' = completeLevel(progress, selectedDifficulty, selectedLevel,
                                 completionStars', completionScore')

\* C29: the view changes to complete, and completeLevel records a completion,
\* only while the view is playing and for the level being played: a completion
\* call that a game delivers with a delay (the maze game calls onComplete 500
\* ms after the win) never takes effect after the player has left the level
\* with Back or Escape.
C29_NoCompletionAfterBack == [][CompletionInPlayStep]_vars

\* ------------------------------------------------------------- the tile-slide puzzle: claims
\* Board t is a permutation of 0 .. n*n-1.
IsPermutation(t) ==
  /\ DOMAIN t = 0 .. totalTiles - 1
  /\ { t[i] : i \in DOMAIN t } = 0 .. totalTiles - 1

\* The boards, each with its slot, that one legal slide makes from those of S:
\* a tile next to the slot moves into it.
SlideAll(S) ==
  UNION { { [tiles |-> Swap(s.tiles, s.empty, m), empty |-> m]
            : m \in getValidMoves(s.empty, gridSize) } : s \in S }

RECURSIVE SlideClosure(_, _)
SlideClosure(done, frontier) ==
  IF frontier = {} THEN done
  ELSE LET more == SlideAll(frontier) \ done
       IN  SlideClosure(done \cup more, more)

\* The boards that legal slides reach from the solved board.
SlideReachable ==
  LET start == {[tiles |-> solved, empty |-> totalTiles - 1]}
  IN  SlideClosure(start, start)

\* C30: after the initial shuffle and after any sequence of tile clicks the
\* board is a permutation of 0..n*n-1 that legal slides reach from the solved
\* board, and the cell at emptyIndex, the slot tiles slide into, is the cell
\* that holds the value the game renders as the empty space, 0.
C30_TileBoardAndEmpty ==
  tiles # <<>> =>
    /\ IsPermutation(tiles)
    /\ [tiles |-> tiles, empty |-> emptyIndex] \in SlideReachable
    /\ tiles[emptyIndex] = 0

====
